---- MODULE Spec2Model ----
(***************************************************************************)
(* Character-level sequence-to-sequence translation notebook               *)
(* (Machine-Translation.ipynb): corpus loading, vocabulary indexing,       *)
(* one-hot tensor filling, training call, and the greedy decoding loop     *)
(* decode_sequence with its driver.                                        *)
(*                                                                         *)
(* Texts are sequences of one-character strings (TLA+ position p is Python *)
(* index p - 1).  Tensors are functions over Python's 0-based indices that *)
(* hold 0 or 1.  The Keras networks are deterministic functions of the     *)
(* trained parameters, modelled by a small family of integer functions.    *)
(***************************************************************************)
EXTENDS Integers, Sequences, FiniteSets, TLC

VARIABLES
    file,                   \* content of resource/en_de.txt
    pc,                     \* which notebook cell / loop iteration runs next
    err,                    \* the exception that stopped the notebook, or NoError
    data,                   \* cell 2
    input_texts,            \* cells 4-5
    target_texts,
    input_chars,            \* cell 6: the sets, in their iteration order
    target_chars,
    max_encoder_seq_length, \* cell 7
    max_decoder_seq_length,
    num_enc_tokens,         \* cell 8
    num_dec_tokens,
    input_char2idx,         \* cell 9
    target_char2idx,
    input_idx2char,         \* cell 10
    target_idx2char,
    encoder_input_data,     \* cells 11-12
    decoder_input_data,
    decoder_target_data,
    idx,                    \* cell 12: the enumerate index of the filling loop
    t,                      \* cell 12: the inner loop variable, which outlives its loop
    params,                 \* cell 20: the trained weights
    seq_index,              \* cell 32: the driver's loop variable
    states,                 \* decode_sequence locals
    target_seq,
    end_of_seq,
    decoded_sentence,
    enc_log,                \* calls of encoder_model.predict made by the running decode_sequence
    calls,                  \* calls of decoder_model.predict made by the running decode_sequence
    printed,                \* what the driver printed: one decoded sentence per seq_index
    saved,                  \* cell 27: the content of models/en2de.h5
    session,                \* the alphabets and dictionaries of a later interpreter session
    sessions,               \* the locals of the calls of decode_sequence that run side by side
    bow_pc,                 \* bag-of-words notebook: which cell runs next
    bow_data,               \* bag-of-words notebook: data (the sentences)
    sents,                  \* bag-of-words notebook
    allwords,
    vocab,
    sents_vec

corpus_vars == <<file, data, input_texts, target_texts>>
vocab_vars  == <<input_chars, target_chars, max_encoder_seq_length, max_decoder_seq_length,
                 num_enc_tokens, num_dec_tokens, input_char2idx, target_char2idx,
                 input_idx2char, target_idx2char>>
tensor_vars == <<encoder_input_data, decoder_input_data, decoder_target_data>>
fill_vars   == <<idx, t>>
decode_vars == <<seq_index, states, target_seq, end_of_seq, decoded_sentence,
                 enc_log, calls, printed>>
later_vars == <<saved, session>>
bow_vars == <<bow_pc, bow_data, sents, allwords, vocab, sents_vec>>
other_vars == <<sessions, bow_vars>>
vars == <<corpus_vars, vocab_vars, tensor_vars, fill_vars, params, decode_vars, later_vars,
          other_vars, pc, err>>

(***************************************************************************)
(* Bounds of the model.                                                    *)
(***************************************************************************)
\* the corpus file holds at most this many characters
MaxFileLen == 7
\* string-hash seeds 0..MaxSeed of the interpreter (they fix a set's iteration order)
MaxSeed == 2
\* trained parameter vectors 0..MaxParam
MaxParam == 3
\* a recurrent state [h, c] is one of 0..MaxState
MaxState == 2
\* a softmax output is quantised to 0..MaxProb
MaxProb == 2
\* the tensor encoder on its own: the file to encode holds at most this many
\* characters, and the supplied max_len is one of 0..MaxRows
MaxEncodeLen == 5
MaxRows == 2
\* calls of decode_sequence side by side: the corpus file holds at most this
\* many characters
MaxPairFileLen == 6
\* the bag-of-words computation: data holds at most MaxSents sentences of at
\* most MaxSentLen characters
MaxSents == 2
MaxSentLen == 4

(***************************************************************************)
(* Characters.                                                             *)
(***************************************************************************)
START == "\t"
END   == "\n"
SPACE == " "
FileChars == {"a", SPACE, START, END}

NoError == "none"
Unbound == -1
NotYet  == <<>>

Files == UNION {[1..n -> FileChars] : n \in 0..MaxFileLen}

(***************************************************************************)
(* str.split(sep): the pieces between the occurrences of sep; always at    *)
(* least one piece.                                                        *)
(***************************************************************************)
RECURSIVE SplitFrom(_, _, _, _)
SplitFrom(s, sep, p, cur) ==
    IF p > Len(s) THEN <<cur>>
    ELSE IF s[p] = sep THEN <<cur>> \o SplitFrom(s, sep, p + 1, <<>>)
    ELSE SplitFrom(s, sep, p + 1, Append(cur, s[p]))

split(s, sep) == SplitFrom(s, sep, 1, <<>>)

\* cell 2: data = f.read().split('\n')
ReadData(f) == split(f, END)

\* a variant of the unpacking that takes the first two pieces of any more
Unpacks_atleast(line) == Len(split(line, START)) >= 2

\* cell 5, one line: ip, op = line.split('\t') needs exactly two pieces
Unpacks(line) == Len(split(line, START)) = 2
\* a variant of the source text that takes the wrong piece
InputOf_second(line) == split(line, START)[2]

InputOf(line) == split(line, START)[1]
\* a variant of the target text that wraps the whole line
TargetOf_unsplit(line) == <<START>> \o line \o <<END>>
\* a variant of the target text without the two markers
TargetOf_bare(line) == split(line, START)[2]
TargetOf(line) == <<START>> \o split(line, START)[2] \o <<END>>

(***************************************************************************)
(* Cell 6: set(...) of the characters of a list of texts, and the order in *)
(* which the set is iterated.  CPython orders a set of strings by their    *)
(* hashes, which depend on the process's hash seed: the order is arbitrary *)
(* but the same every time the unchanged set is iterated in one process.   *)
(***************************************************************************)
CharsOf(texts) == UNION {{texts[k][p] : p \in 1..Len(texts[k])} : k \in DOMAIN texts}

Rank(c) == CASE c = START -> 1 [] c = END -> 2 [] c = SPACE -> 3 [] OTHER -> 4

Hash(c, seed) == (Rank(c) * (seed + 1)) % 7

RECURSIVE IterationOrder(_, _)
IterationOrder(S, seed) ==
    IF S = {} THEN <<>>
    ELSE LET first == CHOOSE c \in S : \A d \in S : Hash(c, seed) <= Hash(d, seed)
         IN  <<first>> \o IterationOrder(S \ {first}, seed)

\* a variant of the maximum length: the smallest length
MaxLen_min(texts) == CHOOSE m \in {Len(texts[k]) : k \in DOMAIN texts} :
                         \A k \in DOMAIN texts : Len(texts[k]) >= m

\* cell 7: max([len(txt) for txt in texts]); the list is never empty here
MaxLen(texts) == CHOOSE m \in {Len(texts[k]) : k \in DOMAIN texts} :
                     \A k \in DOMAIN texts : Len(texts[k]) <= m

\* cell 9: dict([(char, i) for i, char in enumerate(chars)])
Char2Idx(chars) == [c \in {chars[p] : p \in DOMAIN chars} |->
                       (CHOOSE p \in DOMAIN chars : chars[p] = c) - 1]

\* a variant of the reverse dictionary: every index names the next character
Idx2Char_rotated(chars) == [i \in 0..Len(chars) - 1 |-> chars[((i + 1) % Len(chars)) + 1]]

\* cell 10: dict([(i, char) for i, char in enumerate(chars)])
Idx2Char(chars) == [i \in 0..Len(chars) - 1 |-> chars[i + 1]]

\* cell 11: np.zeros((n, max_len, num_tokens))
Zeros(n, max_len, num_tokens) ==
    [k \in 0..n - 1 |-> [r \in 0..max_len - 1 |-> [j \in 0..num_tokens - 1 |-> 0]]]

(***************************************************************************)
(* Cell 12, the body of the filling loop for one (input_text, target_text).*)
(* A matrix is one batch entry of a tensor: [timestep -> [token -> 0 or 1]].*)
(***************************************************************************)
\* m[r, j] = 1.
SetOne(m, r, j) == [m EXCEPT ![r] = [@ EXCEPT ![j] = 1]]

\* m[from:, j] = 1.   (a slice that starts past the end is empty)
SetSlice(m, from, j) ==
    [r \in DOMAIN m |-> IF r >= from THEN [m[r] EXCEPT ![j] = 1] ELSE m[r]]

\* for t, char in enumerate(text): m[t, char2idx[char]] = 1.
RECURSIVE WriteChars(_, _, _, _)
WriteChars(m, text, char2idx, p) ==
    IF p > Len(text) THEN m
    ELSE WriteChars(SetOne(m, p - 1, char2idx[text[p]]), text, char2idx, p + 1)

\* a variant of the target write without the shift by one timestep
WriteAhead_noshift(m, text, char2idx, p) == WriteChars(m, text, char2idx, p)

\* for t, char in enumerate(text): if t > 0: m[t - 1, char2idx[char]] = 1.
RECURSIVE WriteAhead(_, _, _, _)
WriteAhead(m, text, char2idx, p) ==
    IF p > Len(text) THEN m
    ELSE WriteAhead(IF p - 1 > 0 THEN SetOne(m, p - 2, char2idx[text[p]]) ELSE m,
                    text, char2idx, p + 1)

\* a variant of the bounds check: every row index is accepted
InBounds_any(m, r) == TRUE

\* numpy accepts m[r, j] = 1. for a row r of m and raises IndexError otherwise
\* (r is never negative here)
InBounds(m, r) == r \in DOMAIN m

\* the first iteration (1-based) of "for t, char in enumerate(text)" whose
\* write m[t, char2idx[char]] = 1. raises, or 0 when none does
FirstFault(m, text, char2idx) ==
    LET bad == {p \in 1..Len(text) : text[p] \notin DOMAIN char2idx \/ ~InBounds(m, p - 1)}
    IN  IF bad = {} THEN 0 ELSE CHOOSE p \in bad : \A q \in bad : p <= q

\* what that iteration raises: the dictionary lookup is evaluated before the
\* assignment into the array
FaultKind(text, char2idx, p) ==
    IF text[p] \notin DOMAIN char2idx THEN "KeyError" ELSE "IndexError"

\* the part of text whose iterations are complete when iteration fault raises
DoneBefore(text, fault) == IF fault = 0 THEN text ELSE SubSeq(text, 1, fault - 1)

\* a variant of the loop variable: the number of iterations made
LoopVarAfter_len(text, before) == Len(text)

\* the value of t when "for t, char in enumerate(text)" is over: an empty text
\* leaves t as it was
LoopVarAfter(text, before) == IF Len(text) > 0 THEN Len(text) - 1 ELSE before

(***************************************************************************)
(* The networks.  encoder_model.predict and decoder_model.predict compute  *)
(* fixed functions of the trained weights and their inputs; which function *)
(* is the optimiser's business.  The family below stands for it: weights   *)
(* are a number, a recurrent state [h, c] is a number, a softmax output is *)
(* a vector of quantised probabilities.                                    *)
(***************************************************************************)
RECURSIVE WeightedSum(_, _)
WeightedSum(v, n) == IF n = 0 THEN 0 ELSE WeightedSum(v, n - 1) + n * v[n - 1]

\* the projection of one timestep's token vector
Project(row) == WeightedSum(row, Cardinality(DOMAIN row))

RECURSIVE Fold(_, _, _)
Fold(m, n, acc) ==
    IF n = Cardinality(DOMAIN m) THEN acc
    ELSE Fold(m, n + 1, (2 * acc + Project(m[n]) + 1) % (MaxState + 1))

\* encoder_model.predict(input_seq): the final state [h, c]
encoder_predict(weights, input_seq) == Fold(input_seq, 0, weights % (MaxState + 1))

\* decoder_model.predict([target_seq] + states): (output, h, c)
decoder_predict(weights, tseq, st) ==
    LET x == Project(tseq)
        hc == (st + x + weights + 1) % (MaxState + 1)
    IN  [output |-> [j \in DOMAIN tseq |->
                       ((j + 1) * (weights + 1) + (j + 1) * (j + 1) * hc + x) % (MaxProb + 1)],
         hc |-> hc]

\* a variant of argmax that breaks ties towards the last index
argmax_last(v) == CHOOSE j \in DOMAIN v :
                      /\ \A k \in DOMAIN v : v[k] <= v[j]
                      /\ \A k \in DOMAIN v : k > j => v[k] < v[j]

\* np.argmax(v): the first index that holds the maximum
argmax(v) == CHOOSE j \in DOMAIN v :
                 /\ \A k \in DOMAIN v : v[k] <= v[j]
                 /\ \A k \in DOMAIN v : k < j => v[k] < v[j]

\* variants of the stop condition: >= for >, a bound that is one too large,
\* the wrong marker, no test for the END marker
StopCondition_ge(predicted_char, sentence) ==
    predicted_char = END \/ Len(sentence) >= max_decoder_seq_length

StopCondition_late(predicted_char, sentence) ==
    predicted_char = END \/ Len(sentence) > max_decoder_seq_length + 1

StopCondition_start(predicted_char, sentence) ==
    predicted_char = START \/ Len(sentence) > max_decoder_seq_length

StopCondition_nomarker(predicted_char, sentence) ==
    Len(sentence) > max_decoder_seq_length

\* line 556: predicted_char == '\n' or len(decoded_sentence) > max_decoder_seq_length
StopCondition(predicted_char, sentence) ==
    predicted_char = END \/ Len(sentence) > max_decoder_seq_length

\* a variant of the initial token vector: the vector of the previous call is
\* reused instead of a fresh one
InitialTargetSeq_reused ==
    IF target_seq = NotYet
    THEN [[j \in 0..num_dec_tokens - 1 |-> 0] EXCEPT ![target_char2idx[START]] = 1]
    ELSE [target_seq EXCEPT ![target_char2idx[START]] = 1]

\* lines 544-545: a fresh zero vector with a 1 at START
InitialTargetSeq == [[j \in 0..num_dec_tokens - 1 |-> 0] EXCEPT ![target_char2idx[START]] = 1]

\* a variant of the token update that zeroes the vector first
NextTargetSeq_cleared(tseq, predicted_char_idx) ==
    [j \in DOMAIN tseq |-> IF j = predicted_char_idx THEN 1 ELSE 0]

\* line 559: target_seq[0, 0, predicted_char_idx] = 1   (the vector is not zeroed first)
NextTargetSeq(tseq, predicted_char_idx) == [tseq EXCEPT ![predicted_char_idx] = 1]

\* a variant of the state update: the returned state is dropped
NextStates_kept(old, hc) == old

\* line 560: states = [h, c]
NextStates(old, hc) == hc

\* line 900: range(100)
DriverRange == 100

\* line 275
latent_units == 128

\* line 492, model.save('models/en2de.h5'): the file holds the model's layers
\* (their widths) and weights
SavedModel(weights) ==
    [latent_units |-> latent_units, num_enc_tokens |-> num_enc_tokens,
     num_dec_tokens |-> num_dec_tokens, weights |-> weights]

(***************************************************************************)
(* The notebook, cell by cell.                                             *)
(***************************************************************************)
Init ==
    /\ file \in Files
    /\ pc = "read"
    /\ err = NoError
    /\ data = NotYet
    /\ input_texts = NotYet
    /\ target_texts = NotYet
    /\ input_chars = NotYet
    /\ target_chars = NotYet
    /\ max_encoder_seq_length = 0
    /\ max_decoder_seq_length = 0
    /\ num_enc_tokens = 0
    /\ num_dec_tokens = 0
    /\ input_char2idx = NotYet
    /\ target_char2idx = NotYet
    /\ input_idx2char = NotYet
    /\ target_idx2char = NotYet
    /\ encoder_input_data = NotYet
    /\ decoder_input_data = NotYet
    /\ decoder_target_data = NotYet
    /\ idx = 0
    /\ t = Unbound
    /\ params = Unbound
    /\ seq_index = 0
    /\ states = Unbound
    /\ target_seq = NotYet
    /\ end_of_seq = FALSE
    /\ decoded_sentence = <<>>
    /\ enc_log = <<>>
    /\ calls = <<>>
    /\ printed = <<>>
    /\ saved = NotYet
    /\ session = NotYet
    /\ sessions = NotYet
    /\ bow_pc = "off"
    /\ bow_data = NotYet
    /\ sents = NotYet
    /\ allwords = NotYet
    /\ vocab = NotYet
    /\ sents_vec = NotYet

\* cells 2 and 4: read and split the file, start with empty lists
ReadFile ==
    /\ pc = "read"
    /\ data' = ReadData(file)
    /\ input_texts' = <<>>
    /\ target_texts' = <<>>
    /\ pc' = "load"
    /\ UNCHANGED <<file, vocab_vars, tensor_vars, fill_vars, params, decode_vars, later_vars,
                   other_vars, err>>

\* cell 5, one iteration of: for i, line in enumerate(data)
LoadLine ==
    /\ pc = "load"
    /\ Len(input_texts) < Len(data)
    /\ LET line == data[Len(input_texts) + 1]
       IN  IF Unpacks(line)
           THEN /\ input_texts' = Append(input_texts, InputOf(line))
                /\ target_texts' = Append(target_texts, TargetOf(line))
                /\ UNCHANGED <<pc, err>>
           ELSE /\ pc' = "error"
                /\ err' = "ValueError"
                /\ UNCHANGED <<input_texts, target_texts>>
    /\ UNCHANGED <<file, data, vocab_vars, tensor_vars, fill_vars, params, decode_vars,
                   later_vars, other_vars>>

\* cells 6-11: alphabets, lengths, sizes, the four dictionaries, the zero tensors
BuildVocab ==
    /\ pc = "load"
    /\ Len(input_texts) = Len(data)
    /\ \E seed \in 0..MaxSeed :
         /\ input_chars' = IterationOrder(CharsOf(input_texts), seed)
         /\ target_chars' = IterationOrder(CharsOf(target_texts), seed)
    /\ max_encoder_seq_length' = MaxLen(input_texts)
    /\ max_decoder_seq_length' = MaxLen(target_texts)
    /\ num_enc_tokens' = Len(input_chars')
    /\ num_dec_tokens' = Len(target_chars')
    /\ input_char2idx' = Char2Idx(input_chars')
    /\ target_char2idx' = Char2Idx(target_chars')
    /\ input_idx2char' = Idx2Char(input_chars')
    /\ target_idx2char' = Idx2Char(target_chars')
    /\ encoder_input_data' =
           Zeros(Len(input_texts), max_encoder_seq_length', num_enc_tokens')
    /\ decoder_input_data' =
           Zeros(Len(target_texts), max_decoder_seq_length', num_dec_tokens')
    /\ decoder_target_data' =
           Zeros(Len(target_texts), max_decoder_seq_length', num_dec_tokens')
    /\ idx' = 0
    /\ pc' = "fill"
    /\ UNCHANGED <<corpus_vars, t, params, decode_vars, later_vars, other_vars, err>>

\* cell 12, one iteration of: for idx, (input_text, target_text) in enumerate(zip(...))
FillRow ==
    /\ pc = "fill"
    /\ idx < Len(input_texts)
    /\ LET input_text == input_texts[idx + 1]
           target_text == target_texts[idx + 1]
           f1 == FirstFault(encoder_input_data[idx], input_text, input_char2idx)
           enc1 == WriteChars(encoder_input_data[idx], DoneBefore(input_text, f1),
                              input_char2idx, 1)
           t1 == IF f1 = 0 THEN LoopVarAfter(input_text, t) ELSE f1 - 1
           f2 == FirstFault(decoder_input_data[idx], target_text, target_char2idx)
           din1 == WriteChars(decoder_input_data[idx], DoneBefore(target_text, f2),
                              target_char2idx, 1)
           dtg1 == WriteAhead(decoder_target_data[idx], DoneBefore(target_text, f2),
                              target_char2idx, 1)
           t2 == IF f2 = 0 THEN LoopVarAfter(target_text, t1) ELSE f2 - 1
       IN  IF f1 # 0
           THEN \* line 256: input_char2idx[char], or a row past the tensor
                /\ pc' = "error"
                /\ err' = FaultKind(input_text, input_char2idx, f1)
                /\ encoder_input_data' = [encoder_input_data EXCEPT ![idx] = enc1]
                /\ t' = t1
                /\ UNCHANGED <<decoder_input_data, decoder_target_data, idx>>
           ELSE IF t1 = Unbound
           THEN \* line 257: t is not defined
                /\ pc' = "error"
                /\ err' = "NameError"
                /\ UNCHANGED <<tensor_vars, fill_vars>>
           ELSE IF SPACE \notin DOMAIN input_char2idx
           THEN \* line 257: input_char2idx[' ']
                /\ pc' = "error"
                /\ err' = "KeyError"
                /\ encoder_input_data' = [encoder_input_data EXCEPT ![idx] = enc1]
                /\ t' = t1
                /\ UNCHANGED <<decoder_input_data, decoder_target_data, idx>>
           ELSE IF f2 # 0
           THEN \* line 260: target_char2idx[char], or a row past the tensor
                /\ pc' = "error"
                /\ err' = FaultKind(target_text, target_char2idx, f2)
                /\ encoder_input_data' = [encoder_input_data EXCEPT ![idx] =
                       SetSlice(enc1, t1 + 1, input_char2idx[SPACE])]
                /\ decoder_input_data' = [decoder_input_data EXCEPT ![idx] = din1]
                /\ decoder_target_data' = [decoder_target_data EXCEPT ![idx] = dtg1]
                /\ t' = t2
                /\ UNCHANGED idx
           ELSE IF SPACE \notin DOMAIN target_char2idx
           THEN \* line 265: target_char2idx[' ']
                /\ pc' = "error"
                /\ err' = "KeyError"
                /\ encoder_input_data' = [encoder_input_data EXCEPT ![idx] =
                       SetSlice(enc1, t1 + 1, input_char2idx[SPACE])]
                /\ decoder_input_data' = [decoder_input_data EXCEPT ![idx] = din1]
                /\ decoder_target_data' = [decoder_target_data EXCEPT ![idx] = dtg1]
                /\ t' = t2
                /\ UNCHANGED idx
           ELSE /\ encoder_input_data' = [encoder_input_data EXCEPT ![idx] =
                       SetSlice(enc1, t1 + 1, input_char2idx[SPACE])]
                /\ decoder_input_data' = [decoder_input_data EXCEPT ![idx] =
                       SetSlice(din1, t2 + 1, target_char2idx[SPACE])]
                /\ decoder_target_data' = [decoder_target_data EXCEPT ![idx] =
                       SetSlice(dtg1, t2, target_char2idx[SPACE])]
                /\ t' = t2
                /\ idx' = idx + 1
                /\ UNCHANGED <<pc, err>>
    /\ UNCHANGED <<corpus_vars, vocab_vars, params, decode_vars, later_vars, other_vars>>

\* cells 13-30: build the networks, model.fit(...) and model.save(...); the
\* weights are whatever the optimiser arrives at
Train ==
    /\ pc = "fill"
    /\ idx = Len(input_texts)
    /\ params' \in 0..MaxParam
    /\ saved' = SavedModel(params')
    /\ UNCHANGED <<session, other_vars>>
    /\ seq_index' = 0
    /\ pc' = "driver"
    /\ UNCHANGED <<corpus_vars, vocab_vars, tensor_vars, fill_vars, err,
                   states, target_seq, end_of_seq, decoded_sentence, enc_log, calls, printed>>

\* cell 32, lines 903-904 and decode_sequence lines 542-548: the call begins
DecodeBegin ==
    /\ pc = "driver"
    /\ seq_index < DriverRange
    /\ seq_index < Len(input_texts)
    /\ LET input_seq == encoder_input_data[seq_index]
           context == encoder_predict(params, input_seq)
       IN  /\ states' = context
           /\ enc_log' = <<[input_seq |-> input_seq, states |-> context]>>
    /\ target_seq' = InitialTargetSeq
    /\ end_of_seq' = FALSE
    /\ decoded_sentence' = <<>>
    /\ calls' = <<>>
    /\ pc' = "decode"
    /\ UNCHANGED <<corpus_vars, vocab_vars, tensor_vars, fill_vars, params, err,
                   seq_index, printed, later_vars, other_vars>>

\* cell 32 past the end of the corpus: encoder_input_data[seq_index: seq_index + 1]
\* is an empty batch, for which the networks have nothing to predict
DecodeEmptyBatch ==
    /\ pc = "driver"
    /\ seq_index < DriverRange
    /\ seq_index >= Len(input_texts)
    /\ pc' = "error"
    /\ err' = "ValueError"
    /\ UNCHANGED <<corpus_vars, vocab_vars, tensor_vars, fill_vars, params, decode_vars,
                   later_vars, other_vars>>

\* decode_sequence lines 550-560: one iteration of: while not end_of_seq
DecodeStep ==
    /\ pc = "decode"
    /\ ~end_of_seq
    /\ LET out == decoder_predict(params, target_seq, states)
           predicted_char_idx == argmax(out.output)
           predicted_char == target_idx2char[predicted_char_idx]
           sentence == Append(decoded_sentence, predicted_char)
       IN  /\ calls' = Append(calls, [target_seq |-> target_seq, states |-> states,
                                      output |-> out.output, hc |-> out.hc])
           /\ decoded_sentence' = sentence
           /\ end_of_seq' = StopCondition(predicted_char, sentence)
           /\ target_seq' = NextTargetSeq(target_seq, predicted_char_idx)
           /\ states' = NextStates(states, out.hc)
    /\ UNCHANGED <<corpus_vars, vocab_vars, tensor_vars, fill_vars, params, err,
                   seq_index, enc_log, printed, pc, later_vars, other_vars>>

\* a variant of the return that derives the reverse target dictionary anew,
\* in another order
DecodeReturn_rebuilds ==
    /\ pc = "decode"
    /\ end_of_seq
    /\ printed' = Append(printed, decoded_sentence)
    /\ seq_index' = seq_index + 1
    /\ pc' = "driver"
    /\ target_idx2char' = Idx2Char_rotated(target_chars)
    /\ UNCHANGED <<corpus_vars, input_chars, target_chars, max_encoder_seq_length,
                   max_decoder_seq_length, num_enc_tokens, num_dec_tokens, input_char2idx,
                   target_char2idx, input_idx2char, tensor_vars, fill_vars, params, err,
                   states, target_seq, end_of_seq, decoded_sentence, enc_log, calls,
                   later_vars, other_vars>>

\* decode_sequence line 561 and cell 32 lines 905-907: return and print
DecodeReturn ==
    /\ pc = "decode"
    /\ end_of_seq
    /\ printed' = Append(printed, decoded_sentence)
    /\ seq_index' = seq_index + 1
    /\ pc' = "driver"
    /\ UNCHANGED <<corpus_vars, vocab_vars, tensor_vars, fill_vars, params, err,
                   states, target_seq, end_of_seq, decoded_sentence, enc_log, calls,
                   later_vars, other_vars>>

\* A later interpreter session that is to use models/en2de.h5: the file holds
\* no alphabet, so cells 2-10 are run again on the same corpus file, under the
\* new process's own string-hash seed.
NewSession ==
    /\ pc = "error"
    /\ saved # NotYet
    /\ session = NotYet
    /\ \E seed \in 0..MaxSeed :
         LET ichars == IterationOrder(CharsOf(input_texts), seed)
             tchars == IterationOrder(CharsOf(target_texts), seed)
         IN  session' = [input_chars |-> ichars, target_chars |-> tchars,
                         input_char2idx |-> Char2Idx(ichars),
                         target_char2idx |-> Char2Idx(tchars),
                         input_idx2char |-> Idx2Char(ichars),
                         target_idx2char |-> Idx2Char(tchars),
                         model |-> saved]
    /\ UNCHANGED <<corpus_vars, vocab_vars, tensor_vars, fill_vars, params, decode_vars,
                   saved, other_vars, pc, err>>

Next ==
    \/ ReadFile
    \/ LoadLine
    \/ BuildVocab
    \/ FillRow
    \/ Train
    \/ DecodeBegin
    \/ DecodeEmptyBatch
    \/ DecodeStep
    \/ DecodeReturn
    \/ NewSession

Spec == Init /\ [][Next]_vars

(***************************************************************************)
(* A decoder step that fails.  decoder_model.predict is a call into the    *)
(* numeric library, which can raise (out of memory, a state of the wrong   *)
(* shape); decode_sequence and the driver loop have no try/except, so the  *)
(* exception ends both.                                                    *)
(***************************************************************************)
\* a variant of the failing step in which the loop goes on to call the decoder
\* again
DecodeStepFails_retry ==
    /\ pc = "decode"
    /\ ~end_of_seq
    /\ err = NoError
    /\ err' = "PredictError"
    /\ UNCHANGED <<corpus_vars, vocab_vars, tensor_vars, fill_vars, params, decode_vars,
                   later_vars, other_vars, pc>>

\* line 551 raises: nothing after it in the loop body runs, decode_sequence
\* does not return, and the driver's for loop ends
DecodeStepFails ==
    /\ pc = "decode"
    /\ ~end_of_seq
    /\ err = NoError
    /\ pc' = "error"
    /\ err' = "PredictError"
    /\ UNCHANGED <<corpus_vars, vocab_vars, tensor_vars, fill_vars, params, decode_vars,
                   later_vars, other_vars>>

FaultNext ==
    \/ ReadFile
    \/ LoadLine
    \/ BuildVocab
    \/ FillRow
    \/ Train
    \/ DecodeBegin
    \/ DecodeEmptyBatch
    \/ DecodeStep
    \/ DecodeReturn
    \/ DecodeStepFails

FaultSpec == Init /\ [][FaultNext]_vars

(***************************************************************************)
(* Calls of decode_sequence that run side by side (one per worker thread)  *)
(* on the trained model.  states, target_seq, end_of_seq and               *)
(* decoded_sentence are locals of the function, so every call has its own; *)
(* the networks, the dictionaries, the tensors and max_decoder_seq_length  *)
(* are globals that the function only reads.  A step of a call is one      *)
(* iteration of its while loop.                                            *)
(***************************************************************************)
Sessions == {1, 2}

\* a variant of the token tensor: one array that the calls share
TokenOf_shared(s) ==
    sessions[CHOOSE o \in DOMAIN sessions : \A x \in DOMAIN sessions : o <= x].target_seq

\* the token tensor that call s hands to the decoder: its local target_seq
TokenOf(s) == sessions[s].target_seq

\* lines 540-548: call s begins, for the input sequence of index k
SessionBegin(s, k) ==
    /\ pc = "driver"
    /\ s \notin DOMAIN sessions
    /\ k \in DOMAIN encoder_input_data
    /\ sessions' = [x \in DOMAIN sessions \cup {s} |->
                       IF x # s THEN sessions[x]
                       ELSE [input |-> k,
                             states |-> encoder_predict(params, encoder_input_data[k]),
                             target_seq |-> InitialTargetSeq,
                             end_of_seq |-> FALSE,
                             decoded_sentence |-> <<>>,
                             returned |-> NotYet]]
    /\ UNCHANGED <<corpus_vars, vocab_vars, tensor_vars, fill_vars, params, decode_vars,
                   later_vars, bow_vars, pc, err>>

\* lines 550-560: one iteration of the while loop of call s
SessionStep(s) ==
    /\ pc = "driver"
    /\ s \in DOMAIN sessions
    /\ ~sessions[s].end_of_seq
    /\ LET out == decoder_predict(params, TokenOf(s), sessions[s].states)
           predicted_char_idx == argmax(out.output)
           predicted_char == target_idx2char[predicted_char_idx]
           sentence == Append(sessions[s].decoded_sentence, predicted_char)
       IN  sessions' = [sessions EXCEPT ![s] =
               [@ EXCEPT !.decoded_sentence = sentence,
                         !.end_of_seq = StopCondition(predicted_char, sentence),
                         !.target_seq = NextTargetSeq(TokenOf(s), predicted_char_idx),
                         !.states = NextStates(@, out.hc)]]
    /\ UNCHANGED <<corpus_vars, vocab_vars, tensor_vars, fill_vars, params, decode_vars,
                   later_vars, bow_vars, pc, err>>

\* line 561: call s returns its decoded_sentence
SessionReturn(s) ==
    /\ pc = "driver"
    /\ s \in DOMAIN sessions
    /\ sessions[s].end_of_seq
    /\ sessions[s].returned = NotYet
    /\ sessions' = [sessions EXCEPT ![s].returned = sessions[s].decoded_sentence]
    /\ UNCHANGED <<corpus_vars, vocab_vars, tensor_vars, fill_vars, params, decode_vars,
                   later_vars, bow_vars, pc, err>>

PairNext ==
    \/ ReadFile
    \/ LoadLine
    \/ BuildVocab
    \/ FillRow
    \/ Train
    \/ \E s \in Sessions : \E k \in 0..MaxFileLen : SessionBegin(s, k)
    \/ \E s \in Sessions : SessionStep(s)
    \/ \E s \in Sessions : SessionReturn(s)

PairInit == Init /\ Len(file) <= MaxPairFileLen

PairSpec == PairInit /\ [][PairNext]_vars

(***************************************************************************)
(* The naive bag of words of the introduction notebook: data is a list of  *)
(* sentences, sents their words, allwords all the words, vocab the distinct*)
(* words in the order of the set's iteration, sents_vec the counts.        *)
(***************************************************************************)
BowChars == {"a", SPACE}

Sentences == UNION {[1..n -> BowChars] : n \in 0..MaxSentLen}

\* sent.split(): the maximal runs of characters that are not whitespace
RECURSIVE WordsFrom(_, _, _)
WordsFrom(sent, p, cur) ==
    LET word == IF cur = <<>> THEN <<>> ELSE <<cur>>
    IN  IF p > Len(sent) THEN word
        ELSE IF sent[p] = SPACE THEN word \o WordsFrom(sent, p + 1, <<>>)
        ELSE WordsFrom(sent, p + 1, Append(cur, sent[p]))

Words(sent) == WordsFrom(sent, 1, <<>>)

\* [word for sent in sents for word in sent]
RECURSIVE Flatten(_)
Flatten(lists) == IF lists = <<>> THEN <<>> ELSE Head(lists) \o Flatten(Tail(lists))

\* the order in which set(allwords) is iterated, under a string-hash seed
WordHash(word, seed) == (Len(word) * (seed + 1)) % 7

RECURSIVE WordOrder(_, _)
WordOrder(S, seed) ==
    IF S = {} THEN <<>>
    ELSE LET first == CHOOSE w \in S : \A v \in S : WordHash(w, seed) <= WordHash(v, seed)
         IN  <<first>> \o WordOrder(S \ {first}, seed)

\* a variant of the count: 1 for a word that occurs, however often
count_present(sent, v) == IF \E p \in DOMAIN sent : sent[p] = v THEN 1 ELSE 0

\* sent.count(v)
count(sent, v) == Cardinality({p \in DOMAIN sent : sent[p] = v})

mt_vars == <<corpus_vars, vocab_vars, tensor_vars, fill_vars, params, decode_vars, later_vars,
             sessions, pc, err>>

BowInit ==
    /\ bow_pc = "split"
    /\ bow_data \in UNION {[1..n -> Sentences] : n \in 0..MaxSents}
    /\ sents = NotYet
    /\ allwords = NotYet
    /\ vocab = NotYet
    /\ sents_vec = NotYet
    /\ file = <<>>
    /\ pc = "off"
    /\ err = NoError
    /\ data = NotYet
    /\ input_texts = NotYet
    /\ target_texts = NotYet
    /\ input_chars = NotYet
    /\ target_chars = NotYet
    /\ max_encoder_seq_length = 0
    /\ max_decoder_seq_length = 0
    /\ num_enc_tokens = 0
    /\ num_dec_tokens = 0
    /\ input_char2idx = NotYet
    /\ target_char2idx = NotYet
    /\ input_idx2char = NotYet
    /\ target_idx2char = NotYet
    /\ encoder_input_data = NotYet
    /\ decoder_input_data = NotYet
    /\ decoder_target_data = NotYet
    /\ idx = 0
    /\ t = Unbound
    /\ params = Unbound
    /\ seq_index = 0
    /\ states = Unbound
    /\ target_seq = NotYet
    /\ end_of_seq = FALSE
    /\ decoded_sentence = <<>>
    /\ enc_log = <<>>
    /\ calls = <<>>
    /\ printed = <<>>
    /\ saved = NotYet
    /\ session = NotYet
    /\ sessions = NotYet

\* sents = [sent.split() for sent in data]
BowSplit ==
    /\ bow_pc = "split"
    /\ sents' = [k \in DOMAIN bow_data |-> Words(bow_data[k])]
    /\ bow_pc' = "allwords"
    /\ UNCHANGED <<mt_vars, bow_data, allwords, vocab, sents_vec>>

\* allwords = [word for sent in sents for word in sent]
BowAllWords ==
    /\ bow_pc = "allwords"
    /\ allwords' = Flatten(sents)
    /\ bow_pc' = "vocab"
    /\ UNCHANGED <<mt_vars, bow_data, sents, vocab, sents_vec>>

\* vocab = list(set(allwords))
BowVocab ==
    /\ bow_pc = "vocab"
    /\ \E seed \in 0..MaxSeed :
           vocab' = WordOrder({allwords[p] : p \in DOMAIN allwords}, seed)
    /\ bow_pc' = "count"
    /\ UNCHANGED <<mt_vars, bow_data, sents, allwords, sents_vec>>

\* sents_vec = [[sent.count(v) for v in vocab] for sent in sents]
BowCount ==
    /\ bow_pc = "count"
    /\ sents_vec' = [k \in DOMAIN sents |-> [v \in DOMAIN vocab |-> count(sents[k], vocab[v])]]
    /\ bow_pc' = "done"
    /\ UNCHANGED <<mt_vars, bow_data, sents, allwords, vocab>>

BowNext ==
    \/ BowSplit
    \/ BowAllWords
    \/ BowVocab
    \/ BowCount

BowSpec == BowInit /\ [][BowNext]_vars

(***************************************************************************)
(* The tensor encoder on its own: cells 11-12 applied to the pairs of a     *)
(* corpus file with a supplied alphabet and a supplied maximum length, as   *)
(* when sentences are encoded for a model trained on another corpus.  The   *)
(* source rows number max_len and the target rows, for the two markers,     *)
(* max_len + 2.                                                              *)
(***************************************************************************)
Loadable(f) == \A k \in DOMAIN ReadData(f) : Unpacks(ReadData(f)[k])

EncodeInit ==
    /\ file \in {f \in UNION {[1..n -> FileChars] : n \in 0..MaxEncodeLen} : Loadable(f)}
    /\ data = ReadData(file)
    /\ input_texts = [k \in DOMAIN data |-> InputOf(data[k])]
    /\ target_texts = [k \in DOMAIN data |-> TargetOf(data[k])]
    /\ \E S \in SUBSET FileChars : \E seed \in 0..MaxSeed :
           /\ input_chars = IterationOrder(S, seed)
           /\ target_chars = IterationOrder(S, seed)
    /\ max_encoder_seq_length \in 0..MaxRows
    /\ max_decoder_seq_length = max_encoder_seq_length + 2
    /\ num_enc_tokens = Len(input_chars)
    /\ num_dec_tokens = Len(target_chars)
    /\ input_char2idx = Char2Idx(input_chars)
    /\ target_char2idx = Char2Idx(target_chars)
    /\ input_idx2char = Idx2Char(input_chars)
    /\ target_idx2char = Idx2Char(target_chars)
    /\ encoder_input_data = Zeros(Len(input_texts), max_encoder_seq_length, num_enc_tokens)
    /\ decoder_input_data = Zeros(Len(target_texts), max_decoder_seq_length, num_dec_tokens)
    /\ decoder_target_data = Zeros(Len(target_texts), max_decoder_seq_length, num_dec_tokens)
    /\ idx = 0
    /\ t = Unbound
    /\ pc = "fill"
    /\ err = NoError
    /\ params = Unbound
    /\ seq_index = 0
    /\ states = Unbound
    /\ target_seq = NotYet
    /\ end_of_seq = FALSE
    /\ decoded_sentence = <<>>
    /\ enc_log = <<>>
    /\ calls = <<>>
    /\ printed = <<>>
    /\ saved = NotYet
    /\ session = NotYet
    /\ sessions = NotYet
    /\ bow_pc = "off"
    /\ bow_data = NotYet
    /\ sents = NotYet
    /\ allwords = NotYet
    /\ vocab = NotYet
    /\ sents_vec = NotYet

EncodeSpec == EncodeInit /\ [][FillRow]_vars

\* decode_sequence is running; its loop has ended and it is about to return
Decoding == pc = "decode"
Returned == Decoding /\ end_of_seq

\* The files from which the notebook gets as far as the driver loop: every line
\* unpacks, the first source sentence is not empty, and both alphabets hold
\* the space character.  Decoding never starts from any other file
\* (DecodingOnlyOfDecodable).
Decodable(f) ==
    LET lines == ReadData(f)
    IN  /\ \A k \in DOMAIN lines : Unpacks(lines[k])
        /\ InputOf(lines[1]) # <<>>
        /\ \E k \in DOMAIN lines : \E p \in DOMAIN InputOf(lines[k]) :
               InputOf(lines[k])[p] = SPACE
        /\ \E k \in DOMAIN lines : \E p \in DOMAIN TargetOf(lines[k]) :
               TargetOf(lines[k])[p] = SPACE

DecodingOnlyOfDecodable == pc \in {"driver", "decode"} => Decodable(file)

\* The notebook run on a decodable file; decode_sequence's loop runs as the
\* next step of a sequential program, so its iteration is taken when enabled.
LiveInit == Init /\ Decodable(file)
LiveSpec == LiveInit /\ [][Next]_vars /\ WF_vars(DecodeStep)

\* under LiveSpec every call of decode_sequence returns
DecodingReturns == Decoding ~> Returned

(***************************************************************************)
(* Properties.                                                             *)
(***************************************************************************)
NoEnd(sentence) == \A p \in 1..Len(sentence) : sentence[p] # END
OneHotAt(row, j) == \A k \in DOMAIN row : row[k] = IF k = j THEN 1 ELSE 0
\* the tensors are complete once the filling loop has run over the whole corpus
Built == params # Unbound \/ (pc = "fill" /\ idx = Len(input_texts))

\* C1: at every iteration of decode_sequence the token vector handed to the
\* decoder is one-hot: at iteration 1 its single 1 is at START's index, at
\* iteration k > 1 at the index of the character emitted at iteration k - 1.
C1_TokenIsOneHot ==
    Decoding =>
        \A k \in 1..Len(calls) :
            OneHotAt(calls[k].target_seq,
                     IF k = 1 THEN target_char2idx[START]
                     ELSE target_char2idx[decoded_sentence[k - 1]])

\* C2: a decoding in which the decoder never emits END stops with exactly
\* max_decoder_seq_length + 1 characters, and not before.
C2_LengthBound ==
    /\ (Decoding /\ NoEnd(decoded_sentence)) =>
           IF end_of_seq THEN Len(decoded_sentence) = max_decoder_seq_length + 1
           ELSE Len(decoded_sentence) <= max_decoder_seq_length
    /\ \A k \in DOMAIN printed :
           NoEnd(printed[k]) => Len(printed[k]) = max_decoder_seq_length + 1

C2_Witness ==
    /\ Returned
    /\ NoEnd(decoded_sentence)
    /\ Len(decoded_sentence) = max_decoder_seq_length + 1

\* the decoder steps made so far by the running call, against the bound
StepsWithinBound ==
    Decoding =>
        /\ Len(decoded_sentence) = Len(calls)
        /\ Len(calls) <= max_decoder_seq_length + 1
        /\ (end_of_seq => Len(calls) >= 1)
        /\ (~end_of_seq => (Len(calls) <= max_decoder_seq_length /\ ENABLED DecodeStep))

\* C3: whatever the decoder emits, decode_sequence reaches its end after at
\* least 1 and at most max_decoder_seq_length + 1 decoder steps, and the output
\* has one character per step.  While the loop has not ended, fewer than
\* max_decoder_seq_length + 1 steps were made, the next iteration can run, and
\* the only step taken is an iteration, which adds one decoder call.
C3_Terminates ==
    /\ []StepsWithinBound
    /\ [][(Decoding /\ ~end_of_seq) => (Decoding' /\ Len(calls') = Len(calls) + 1)]_vars

C3_Witness ==
    /\ Returned
    /\ Len(calls) > 1
    /\ Len(calls) < max_decoder_seq_length + 1

\* C4: when the decoder emits END on its first call, decode_sequence returns
\* the one-character output END after exactly one decoder step.
C4_EndFirst ==
    /\ (Decoding /\ Len(decoded_sentence) >= 1 /\ decoded_sentence[1] = END) =>
           /\ end_of_seq
           /\ decoded_sentence = <<END>>
           /\ Len(calls) = 1
    /\ \A k \in DOMAIN printed : printed[k][1] = END => printed[k] = <<END>>

C4_Witness ==
    /\ Returned
    /\ decoded_sentence = <<END>>
    /\ Len(calls) = 1

\* sentence is an output whose loop has, or has not yet, stopped
StopsExactly(sentence, stopped) ==
    /\ \A p \in 1..Len(sentence) - 1 : sentence[p] # END
    /\ Len(sentence) - 1 <= max_decoder_seq_length
    /\ stopped <=> /\ Len(sentence) >= 1
                   /\ \/ sentence[Len(sentence)] = END
                      \/ Len(sentence) > max_decoder_seq_length
    /\ (stopped /\ sentence[Len(sentence)] # END) =>
           Len(sentence) = max_decoder_seq_length + 1

\* C5: decode_sequence stops at exactly the first iteration whose character is
\* END or whose output is longer than max_decoder_seq_length: END occurs at
\* most once and only as the last character, and an output that does not end
\* in END has exactly max_decoder_seq_length + 1 characters.
C5_StopsAtFirst ==
    /\ Decoding => StopsExactly(decoded_sentence, end_of_seq)
    /\ \A k \in DOMAIN printed : StopsExactly(printed[k], TRUE)

C5_Witness ==
    /\ Returned
    /\ Len(decoded_sentence) >= 2
    /\ Len(decoded_sentence) <= max_decoder_seq_length
    /\ decoded_sentence[Len(decoded_sentence)] = END
    /\ \E k \in DOMAIN printed : NoEnd(printed[k])

\* C6: one call of decode_sequence invokes the encoder exactly once, before
\* any decoder step; decoder step 1 receives the encoder's state and step
\* k > 1 receives the state returned by step k - 1.
C6_StateThreading ==
    Decoding =>
        /\ Len(enc_log) = 1
        /\ enc_log[1].input_seq = encoder_input_data[seq_index]
        /\ \A k \in 1..Len(calls) :
               calls[k].states = IF k = 1 THEN enc_log[1].states ELSE calls[k - 1].hc
        /\ states = IF calls = <<>> THEN enc_log[1].states ELSE calls[Len(calls)].hc

C6_Witness ==
    /\ Decoding
    /\ Len(calls) >= 3
    /\ calls[2].states # calls[1].states
    /\ calls[3].states # calls[2].states
    /\ calls[3].states # calls[1].states

\* C7: the character appended at a step is the one whose index holds the
\* maximum of the returned distribution, and among several indices holding
\* the maximum the lowest is taken.
C7_GreedyLowestIndex ==
    Decoding =>
        \A k \in 1..Len(calls) :
            \E j \in DOMAIN calls[k].output :
                /\ decoded_sentence[k] = target_idx2char[j]
                /\ \A m \in DOMAIN calls[k].output :
                       calls[k].output[m] <= calls[k].output[j]
                /\ \A m \in DOMAIN calls[k].output :
                       m < j => calls[k].output[m] < calls[k].output[j]

C7_Witness ==
    /\ Decoding
    /\ \E k \in 1..Len(calls) :
           \E j, m \in DOMAIN calls[k].output :
               /\ j < m
               /\ j > 0
               /\ decoded_sentence[k] = target_idx2char[j]
               /\ calls[k].output[m] = calls[k].output[j]

\* C8: two decodings of the same input sequence under the same weights and
\* alphabets give the same output.
C8_SameInputSameOutput ==
    \A a, b \in DOMAIN printed :
        encoder_input_data[a - 1] = encoder_input_data[b - 1] => printed[a] = printed[b]

C8_Witness ==
    \E a, b \in DOMAIN printed :
        /\ a # b
        /\ encoder_input_data[a - 1] = encoder_input_data[b - 1]
        /\ printed[a] = printed[b]
        /\ Len(printed[a]) >= 2

\* every row of every batch entry holds a single 1
OneHotRows(tensor) ==
    \A k \in DOMAIN tensor : \A r \in DOMAIN tensor[k] :
        \E j \in DOMAIN tensor[k][r] : OneHotAt(tensor[k][r], j)

\* C9: in every tensor built by the filling loop every timestep row holds
\* exactly one 1 and zeros elsewhere, also when a source sentence is empty.
C9_RowsAreOneHot ==
    Built => /\ OneHotRows(encoder_input_data)
             /\ OneHotRows(decoder_input_data)
             /\ OneHotRows(decoder_target_data)

\* the batch entry m holds text's characters, then rows for the space character
EncodesText(m, text, char2idx) ==
    \A r \in DOMAIN m :
        OneHotAt(m[r], IF r < Len(text) THEN char2idx[text[r + 1]] ELSE char2idx[SPACE])

\* C10: rows 0..n-1 of a sequence of length n (0 <= n <= max_len) are the
\* one-hot encodings of its characters in order, and every later row has its
\* 1 at the index of the space character.
C10_RealRowsThenPadRows ==
    Built => \A k \in DOMAIN encoder_input_data :
                 /\ EncodesText(encoder_input_data[k], input_texts[k + 1], input_char2idx)
                 /\ EncodesText(decoder_input_data[k], target_texts[k + 1], target_char2idx)

\* C11: the target tensor is the decoder input shifted left by one timestep:
\* target row p equals input row p + 1 wherever p + 1 is a row; decoder input
\* row 0 encodes START; every target row from len(target_text) - 1 on encodes
\* the space character.
C11_TargetIsInputShifted ==
    Built =>
        \A k \in DOMAIN decoder_target_data :
            /\ \A p \in DOMAIN decoder_target_data[k] :
                   p + 1 < max_decoder_seq_length =>
                       decoder_target_data[k][p] = decoder_input_data[k][p + 1]
            /\ OneHotAt(decoder_input_data[k][0], target_char2idx[START])
            /\ \A p \in DOMAIN decoder_target_data[k] :
                   p >= Len(target_texts[k + 1]) - 1 =>
                       OneHotAt(decoder_target_data[k][p], target_char2idx[SPACE])

C11_Witness ==
    /\ Built
    /\ \E k \in DOMAIN decoder_target_data :
           /\ Len(target_texts[k + 1]) >= 3
           /\ Len(target_texts[k + 1]) < max_decoder_seq_length
           /\ decoder_target_data[k][0] # decoder_target_data[k][1]
           /\ decoder_target_data[k][0] = decoder_input_data[k][1]

\* the dictionaries c2i and i2c of the alphabet chars invert each other on a
\* contiguous range of indices
RoundTrip(chars, c2i, i2c) ==
    LET alphabet == {chars[p] : p \in DOMAIN chars}
    IN  /\ DOMAIN c2i = alphabet
        /\ \A c \in alphabet : c2i[c] \in DOMAIN i2c /\ i2c[c2i[c]] = c
        /\ \A c, d \in alphabet : c2i[c] = c2i[d] => c = d
        /\ {c2i[c] : c \in alphabet} = 0..Cardinality(alphabet) - 1

\* the cells that build the alphabets and the dictionaries have run
VocabBuilt == encoder_input_data # NotYet

\* C12: for the source and the target alphabet, idx2char[char2idx[c]] = c for
\* every character c, char2idx is injective, and the indices are exactly
\* 0 .. |alphabet| - 1.
C12_RoundTripIndex ==
    VocabBuilt => /\ RoundTrip(input_chars, input_char2idx, input_idx2char)
                  /\ RoundTrip(target_chars, target_char2idx, target_idx2char)

C12_Witness ==
    /\ VocabBuilt
    /\ Len(input_chars) >= 2
    /\ Len(target_chars) >= 4
    /\ target_char2idx[START] # 0

\* text holds a character that the dictionary does not
HasUnknown(text, char2idx) == \E p \in 1..Len(text) : text[p] \notin DOMAIN char2idx

\* the batch entry m is as np.zeros left it
ZeroEntry(m) == \A r \in DOMAIN m : \A j \in DOMAIN m[r] : m[r][j] = 0

\* the filling loop stopped with an exception
EncodingFailed == pc = "error" /\ err \in {"KeyError", "IndexError", "NameError"}

Tabs(line) == Cardinality({p \in DOMAIN line : line[p] = START})

\* the lines of the file, as cell 2 cuts it at the newline characters
Lines == ReadData(file)

\* the lines that do not hold exactly one tab
Malformed == {k \in DOMAIN Lines : Tabs(Lines[k]) # 1}

\* C14: loading stops with an error at the first line that does not hold
\* exactly one tab: every pair loaded comes from a line before it, in order,
\* none is skipped, the notebook gets no further than the loading loop, and
\* the loop cannot go on once the lines before it are loaded.
C14_MalformedLineStopsLoading ==
    (pc # "read" /\ Malformed # {}) =>
        LET first == CHOOSE k \in Malformed : \A j \in Malformed : k <= j
        IN  /\ pc \in {"load", "error"}
            /\ Len(input_texts) < first
            /\ Len(target_texts) = Len(input_texts)
            /\ \A k \in DOMAIN input_texts :
                   /\ input_texts[k] = split(Lines[k], START)[1]
                   /\ target_texts[k] = <<START>> \o split(Lines[k], START)[2] \o <<END>>
            /\ pc = "error" => (err = "ValueError" /\ Len(input_texts) = first - 1)
            /\ pc = "load" => ENABLED LoadLine
            /\ ~ENABLED BuildVocab

C14_Witness ==
    /\ pc = "error"
    /\ err = "ValueError"
    /\ Len(input_texts) = 1
    /\ Len(Lines) = 3
    /\ Tabs(Lines[2]) = 2
    /\ Tabs(Lines[3]) = 1

\* a pair that is longer than the tensors allow
TooLong(k) ==
    \/ Len(input_texts[k]) > max_encoder_seq_length
    \/ Len(target_texts[k]) > max_decoder_seq_length

\* the number of rows of every batch entry of a tensor is max_len
RowsAre(tensor, max_len) == \A k \in DOMAIN tensor : DOMAIN tensor[k] = 0..max_len - 1

\* C15: a sequence longer than max_len is never encoded, neither whole nor
\* cut to max_len rows: the loop cannot pass its pair without an error, an
\* IndexError is raised only at such a pair, and the tensors keep their
\* max_len rows.
C15_TooLongRaises ==
    /\ \A k \in 1..idx : ~TooLong(k)
    /\ (pc = "fill" /\ idx < Len(input_texts)) => ENABLED FillRow
    /\ (pc = "error" /\ err = "IndexError") => TooLong(idx + 1)
    /\ (pc = "error" /\ TooLong(idx + 1)) => EncodingFailed
    /\ RowsAre(encoder_input_data, max_encoder_seq_length)
    /\ RowsAre(decoder_input_data, max_decoder_seq_length)
    /\ RowsAre(decoder_target_data, max_decoder_seq_length)

C15_Witness ==
    /\ pc = "error"
    /\ err = "IndexError"
    /\ max_encoder_seq_length >= 1
    /\ Len(input_texts[idx + 1]) = max_encoder_seq_length + 1
    /\ ~ZeroEntry(encoder_input_data[idx])

\* C16: once the alphabets are built (the corpus then holds at least one
\* pair), the target alphabet and its dictionary hold both START and END.
C16_MarkersInTargetAlphabet ==
    VocabBuilt =>
        /\ Len(target_texts) >= 1
        /\ {START, END} \subseteq {target_chars[p] : p \in DOMAIN target_chars}
        /\ {START, END} \subseteq DOMAIN target_char2idx

C16_Witness ==
    /\ VocabBuilt
    /\ Len(target_texts) = 2
    /\ {target_chars[p] : p \in DOMAIN target_chars} = {START, END}

\* C17: a second run of the alphabet and dictionary cells on the same corpus,
\* read in the same order, gives every character the index it has in the
\* first run.
C17_SameOrderSameIndex ==
    session # NotYet =>
        /\ session.input_char2idx = input_char2idx
        /\ session.target_char2idx = target_char2idx

\* C18: once the alphabets and dictionaries are built no step changes them,
\* and no step of the decoding driver or of decode_sequence changes the
\* encoded tensors.
C18_VocabularyFrozen ==
    [][/\ VocabBuilt => UNCHANGED vocab_vars
       /\ pc \in {"driver", "decode"} => UNCHANGED tensor_vars]_vars

C18_Witness ==
    /\ VocabBuilt
    /\ Len(printed) >= 2
    /\ Decoding
    /\ Len(calls) >= 1

\* C19: the saved file holds the latent width, the source alphabet and the
\* target alphabet with the parameters, and a later session that loads it
\* maps every index to the character it had at training time.
C19_SavedAsOneUnit ==
    /\ saved # NotYet =>
           {"latent_units", "input_chars", "target_chars", "weights"} \subseteq DOMAIN saved
    /\ session # NotYet =>
           /\ session.input_idx2char = input_idx2char
           /\ session.target_idx2char = target_idx2char

\* C20: an exception of the filling loop at one pair leaves no later pair of
\* the corpus unencoded: when the loop has stopped at pair idx, the tensor
\* entries of the pairs after it are filled all the same.
C20_ErrorsAreScoped ==
    EncodingFailed =>
        \A k \in idx + 1..Len(input_texts) - 1 :
            /\ EncodesText(decoder_input_data[k], target_texts[k + 1], target_char2idx)
            /\ ~ZeroEntry(encoder_input_data[k])

\* C21: when a decoder step of decode_sequence raises, no further decoder
\* step is made for that translation, the exception reaches the driver, which
\* stops, and the partial decoded sentence is not returned: nothing is printed
\* for that seq_index, and the steps made are those made before the failure.
C21_StepFailureAborts ==
    err = "PredictError" =>
        /\ pc = "error"
        /\ Len(printed) = seq_index
        /\ Len(calls) = Len(decoded_sentence)
        /\ ~end_of_seq
        /\ ~ENABLED DecodeStep
        /\ ~ENABLED DecodeStepFails
        /\ ~ENABLED DecodeReturn
        /\ ~ENABLED DecodeBegin

C21_Witness ==
    /\ err = "PredictError"
    /\ Len(decoded_sentence) >= 2
    /\ seq_index >= 1

\* what decode_sequence, run on its own from the token tensor tseq and the
\* state st with sentence decoded so far, decodes in the end
RECURSIVE RunAlone(_, _, _)
RunAlone(tseq, st, sentence) ==
    LET out == decoder_predict(params, tseq, st)
        j == argmax(out.output)
        longer == Append(sentence, target_idx2char[j])
    IN  IF StopCondition(target_idx2char[j], longer) THEN longer
        ELSE RunAlone(NextTargetSeq(tseq, j), NextStates(st, out.hc), longer)

DecodeAlone(input_seq) ==
    RunAlone(InitialTargetSeq, encoder_predict(params, input_seq), <<>>)

\* C22: however the iterations of two calls of decode_sequence interleave,
\* each call works on its own state, token tensor and output: what it has
\* decoded so far is what the same call, run alone on its input, has decoded
\* after as many iterations, and what it returns is what the call alone returns.
C22_InterleavedSessions ==
    \A s \in DOMAIN sessions :
        LET alone == DecodeAlone(encoder_input_data[sessions[s].input])
            mine == sessions[s].decoded_sentence
        IN  /\ Len(mine) <= Len(alone)
            /\ mine = SubSeq(alone, 1, Len(mine))
            /\ sessions[s].end_of_seq <=> mine = alone
            /\ sessions[s].returned # NotYet => sessions[s].returned = alone

C22_Witness ==
    /\ DOMAIN sessions = Sessions
    /\ sessions[1].input # sessions[2].input
    /\ sessions[1].returned # NotYet
    /\ sessions[2].returned # NotYet
    /\ sessions[1].returned # sessions[2].returned
    /\ Len(sessions[1].returned) >= 2

\* C23: what is handed back to the user for a sequence holds neither the END
\* marker nor the START marker.
C23_MarkersStripped ==
    \A k \in DOMAIN printed :
        \A p \in DOMAIN printed[k] : printed[k][p] \notin {START, END}

\* the positions of text that hold the character c
Occurrences(text, c) == {p \in DOMAIN text : text[p] = c}

\* C24: in every target text START occurs exactly once, first, and END
\* exactly once, last; no source text holds either marker.
C24_MarkerPositions ==
    /\ \A k \in DOMAIN target_texts :
           /\ Len(target_texts[k]) >= 2
           /\ Occurrences(target_texts[k], START) = {1}
           /\ Occurrences(target_texts[k], END) = {Len(target_texts[k])}
    /\ \A k \in DOMAIN input_texts :
           /\ Occurrences(input_texts[k], START) = {}
           /\ Occurrences(input_texts[k], END) = {}

C24_Witness ==
    /\ pc = "fill"
    /\ Len(target_texts) >= 2
    /\ Len(target_texts[1]) >= 4
    /\ Len(input_texts[2]) >= 1

\* C25: no row of decoder_target_data has a 1 at START's index.
C25_NoStartInTarget ==
    VocabBuilt =>
        \A k \in DOMAIN decoder_target_data :
            \A r \in DOMAIN decoder_target_data[k] :
                decoder_target_data[k][r][target_char2idx[START]] = 0

C25_Witness ==
    /\ Built
    /\ Len(target_texts) >= 2
    /\ decoder_input_data[1][0][target_char2idx[START]] = 1
    /\ decoder_target_data[1][0][target_char2idx[END]] = 1
    /\ decoder_target_data[0][0][target_char2idx[END]] = 0

\* the indices at which the token vector must hold a 1 when the characters of
\* emitted have been decoded
Accumulated(emitted) ==
    {target_char2idx[START]} \cup {target_char2idx[emitted[p]] : p \in DOMAIN emitted}

\* C26: the token vector of decode_sequence is never cleared: after k
\* iterations it holds a 1 exactly at START's index and at the indices of the
\* k characters emitted, so the vector handed to iteration k + 1 has more
\* than one 1 as soon as an emitted character is not START.
C26_TokenAccumulates ==
    Decoding =>
        /\ \A j \in DOMAIN target_seq :
               target_seq[j] = IF j \in Accumulated(decoded_sentence) THEN 1 ELSE 0
        /\ \A k \in DOMAIN calls :
               \A j \in DOMAIN calls[k].target_seq :
                   calls[k].target_seq[j] =
                       IF j \in Accumulated(SubSeq(decoded_sentence, 1, k - 1)) THEN 1 ELSE 0

C26_Witness ==
    /\ Decoding
    /\ Len(calls) >= 3
    /\ Cardinality({j \in DOMAIN calls[3].target_seq : calls[3].target_seq[j] = 1}) = 3
    /\ Cardinality({j \in DOMAIN calls[2].target_seq : calls[2].target_seq[j] = 1}) = 2

\* C27: the filling loop looks the space character up in both dictionaries for
\* every pair, so for a corpus whose source or target alphabet lacks the space
\* character no pair is ever encoded: the loop stops at the first pair, with
\* a KeyError.
C27_SpaceLookupFails ==
    (VocabBuilt /\ (SPACE \notin DOMAIN input_char2idx \/ SPACE \notin DOMAIN target_char2idx)) =>
        /\ idx = 0
        /\ pc \in {"fill", "error"}
        /\ pc = "fill" => ENABLED FillRow
        /\ pc = "error" => err = "KeyError"

\* the loading loop was ended by the exception of a line that does not unpack
LoadAborted == pc = "error" /\ err = "ValueError" /\ input_chars = NotYet /\ target_chars = NotYet

\* C28: between the iterations of the loading loop, and after its abort on a
\* malformed line, input_texts and target_texts have the same length, no more
\* than the number of lines, and their entries i are the two parts of line i.
C28_ListsAligned ==
    pc # "read" =>
        /\ Len(input_texts) = Len(target_texts)
        /\ Len(input_texts) <= Len(Lines)
        /\ \A k \in DOMAIN input_texts :
               /\ Tabs(Lines[k]) = 1
               /\ input_texts[k] = split(Lines[k], START)[1]
               /\ target_texts[k] = <<START>> \o split(Lines[k], START)[2] \o <<END>>
        /\ LoadAborted => (Len(input_texts) < Len(Lines) /\ Tabs(Lines[Len(input_texts) + 1]) # 1)

C28_Witness ==
    /\ LoadAborted
    /\ Len(input_texts) = 2
    /\ input_texts[1] # input_texts[2]
    /\ target_texts[1] # target_texts[2]

\* no source sentence of the corpus is empty (a target text never is)
AllNonEmpty == \A k \in DOMAIN input_texts : input_texts[k] # <<>>

\* every character of text k of a role has an index below num_tokens and a
\* timestep below max_len, and the tensor entry has these dimensions
WritesFit(texts, char2idx, tensor, max_len, num_tokens) ==
    \A k \in DOMAIN texts :
        /\ DOMAIN tensor[k - 1] = 0..max_len - 1
        /\ \A r \in DOMAIN tensor[k - 1] : DOMAIN tensor[k - 1][r] = 0..num_tokens - 1
        /\ \A p \in DOMAIN texts[k] :
               /\ texts[k][p] \in DOMAIN char2idx
               /\ char2idx[texts[k][p]] \in 0..num_tokens - 1
               /\ p - 1 \in 0..max_len - 1

\* C29: for a corpus without empty sequences every write of the filling loop
\* for a character of a sequence is in bounds: the character is in its
\* dictionary, its index is below the alphabet dimension and its timestep
\* below the max-length dimension; the loop never stops at such a write (it
\* stops only at the lookup of the pad character).
C29_WritesInBounds ==
    (VocabBuilt /\ AllNonEmpty) =>
        /\ WritesFit(input_texts, input_char2idx, encoder_input_data,
                     max_encoder_seq_length, num_enc_tokens)
        /\ WritesFit(target_texts, target_char2idx, decoder_input_data,
                     max_decoder_seq_length, num_dec_tokens)
        /\ WritesFit(target_texts, target_char2idx, decoder_target_data,
                     max_decoder_seq_length, num_dec_tokens)
        /\ (pc = "fill" /\ idx < Len(input_texts)) =>
               /\ FirstFault(encoder_input_data[idx], input_texts[idx + 1], input_char2idx) = 0
               /\ FirstFault(decoder_input_data[idx], target_texts[idx + 1], target_char2idx) = 0
        /\ EncodingFailed =>
               /\ err = "KeyError"
               /\ SPACE \notin DOMAIN input_char2idx \/ SPACE \notin DOMAIN target_char2idx

C29_Witness ==
    /\ Built
    /\ AllNonEmpty
    /\ Len(input_texts) >= 2
    /\ Len(input_texts[1]) < Len(input_texts[2])
    /\ Len(target_texts[1]) > Len(target_texts[2])

RECURSIVE Sum(_)
Sum(row) == IF row = <<>> THEN 0 ELSE Head(row) + Sum(Tail(row))

\* the words of a sentence, told by where they start and end: a word is a
\* stretch of characters other than whitespace that is bounded by whitespace
\* or by the ends of the sentence
WordAt(sent, from, to) ==
    /\ from <= to
    /\ \A p \in from..to : sent[p] # SPACE
    /\ from = 1 \/ sent[from - 1] = SPACE
    /\ to = Len(sent) \/ sent[to + 1] = SPACE

Tokens(sent) == {<<from, to>> \in (DOMAIN sent) \X (DOMAIN sent) : WordAt(sent, from, to)}

\* how often the word v occurs in the sentence sent
OccurrencesOfWord(sent, v) ==
    Cardinality({tok \in Tokens(sent) : SubSeq(sent, tok[1], tok[2]) = v})

DistinctWords ==
    UNION {{SubSeq(bow_data[k], tok[1], tok[2]) : tok \in Tokens(bow_data[k])} :
               k \in DOMAIN bow_data}

\* C30: vocab holds every distinct word of the dataset exactly once; the
\* entry of sentence s for the vocabulary word v is the number of occurrences
\* of v in s; every row sums to the number of whitespace-separated tokens of
\* its sentence.
C30_BagOfWords ==
    bow_pc = "done" =>
        /\ {vocab[v] : v \in DOMAIN vocab} = DistinctWords
        /\ Len(vocab) = Cardinality(DistinctWords)
        /\ DOMAIN sents_vec = DOMAIN bow_data
        /\ \A k \in DOMAIN bow_data :
               /\ DOMAIN sents_vec[k] = DOMAIN vocab
               /\ \A v \in DOMAIN vocab :
                      sents_vec[k][v] = OccurrencesOfWord(bow_data[k], vocab[v])
               /\ Sum(sents_vec[k]) = Cardinality(Tokens(bow_data[k]))

C30_Witness ==
    /\ bow_pc = "done"
    /\ Len(bow_data) = 2
    /\ Len(vocab) = 2
    /\ \E v \in DOMAIN vocab : sents_vec[1][v] = 2
    /\ \E v \in DOMAIN vocab : sents_vec[1][v] = 0
    /\ \A v \in DOMAIN vocab : sents_vec[2][v] = 1
    /\ Sum(sents_vec[2]) = 2

====
